---- MODULE Spec2Model ----
(***************************************************************************)
(* A model of the two replot scripts of sb-live-lapse:                     *)
(*   src/replot_latest_sba.py    (variant "latest":   CA snapshots, then   *)
(*                                per-station fallback over lag checks)    *)
(*   src/replot_recent60_sba.py  (variant "recent60": one direct query per *)
(*                                station, flagged recent if age <= 60min) *)
(* Spec        the whole run of main() of either variant                   *)
(* SpecLocate  latest_rass_file() applied to every archive of a bounded set*)
(* SpecParse   parse_rass_profile()/parse_rass() applied to bounded texts  *)
(***************************************************************************)
EXTENDS Integers, Sequences, FiniteSets, TLC

VARIABLES
    variant,        \* which script runs: "latest" or "recent60"
    pc,             \* position of main()
    err,            \* the exception main() terminated with, "" while none
    now_utc,        \* recent60 main(): datetime.now, in half minutes
    web,            \* the archive: its listings and its answer for the file
    located,        \* what latest_rass_file() returned or raised
    text,           \* the raw profile text handed to the parser
    parsed,         \* what the parser returned or raised
    rass_points,    \* main(): the interpolated profile
    lag_h,          \* latest fetch_madis_stations(): snapshot loop counter
    pending,        \* latest fetch_madis_stations(): set of unresolved ids
    results,        \* latest fetch_madis_stations(): id -> row (<<>> unset)
    fut,            \* per station: the pool's future and its worker
    station_rows,   \* the rows the station-fetch step yielded
    hist,           \* per station: what its queries returned (history)
    chart,          \* what draw_chart()/draw_svg() was given and drew
    files           \* which output files main() has written

vars == <<variant, pc, err, now_utc, web, located, text, parsed, rass_points,
          lag_h, pending, results, fut, station_rows, hist, chart, files>>

(***************************************************************************)
(* Optional values (Python None) and small helpers.                        *)
(***************************************************************************)
None == <<>>
Some(v) == <<v>>

SetMax(S) == CHOOSE x \in S : \A y \in S : y <= x

Range(f) == {f[i] : i \in DOMAIN f}

\* math.ceil(a / 100.0) * 100 and math.floor(a / 100.0) * 100 on whole meters
FloorTo100(a) == (a \div 100) * 100

CeilTo100(a) == -(((-a) \div 100) * 100)

\* all sequences over S of length 0..n
RECURSIVE SeqsUpTo(_, _)
SeqsUpTo(S, n) ==
    IF n = 0 THEN {<<>>}
    ELSE LET shorter == SeqsUpTo(S, n - 1)
         IN  shorter \cup {Append(q, x) : q \in {p \in shorter : Len(p) = n - 1}, x \in S}

(***************************************************************************)
(* ProfileLocator: latest_rass_file().                                     *)
(* A directory listing is a set of href entries; an entry is a year        *)
(* directory "20dd/", a day directory "ddd/", a profile file               *)
(* "sbaddddd.ddt" or anything else.  A listing request either fails in     *)
(* transport or returns the listing.                                       *)
(***************************************************************************)
Href(k, n) == [kind |-> k, n |-> n]

YearNames == {2025, 2026}

DoyNames == {7, 45}

TransportFailure == [ok |-> FALSE, hrefs |-> {}]

Listing(S) == [ok |-> TRUE, hrefs |-> S]

\* re.findall(r'href="(20\d{2})/"', html), int() of each
FindYears(html) == {h.n : h \in {x \in html.hrefs : x.kind = "year"}}

\* re.findall(r'href="(\d{3})/"', html), int() of each
FindDoys(html) == {h.n : h \in {x \in html.hrefs : x.kind = "doy"}}

\* re.findall(r'href="(sba\d{5}\.\d{2}t)"', html)
FindFiles(html) == {h.n : h \in {x \in html.hrefs : x.kind = "file"}}

\* the result of latest_rass_file: status "ok" | "RuntimeError" (no
\* candidates) | "URLError" (transport); requests is the log of listing
\* requests it made, in order
LocResult(st, reqs, y, d, f) ==
    [status |-> st, requests |-> reqs, year |-> y, doy |-> d, file |-> f]

\* year = max(years); doy = max(doys); latest_file = sorted(files)[-1]
\* (file names are fixed width, so their string order is their numeric order)
PickYearOldest(years) == CHOOSE x \in years : \A y \in years : x <= y

PickYear(years) == SetMax(years)

PickDoy(doys) == SetMax(doys)

PickLatest(fs) == SetMax(fs)

LatestRassFile(w) ==
    LET root_html == w.root
        reqs1     == <<<<"root", 0, 0>>>>
        years     == FindYears(root_html)
        year      == PickYear(years)
        year_html == w.year[year]
        reqs2     == Append(reqs1, <<"year", year, 0>>)
        doys      == FindDoys(year_html)
        doy       == PickDoy(doys)
        day_html  == w.day[<<year, doy>>]
        reqs3     == Append(reqs2, <<"day", year, doy>>)
        fs        == FindFiles(day_html)
    IN  IF ~root_html.ok THEN LocResult("URLError", reqs1, None, None, None)
        ELSE IF years = {} THEN LocResult("RuntimeError", reqs1, None, None, None)
        ELSE IF ~year_html.ok THEN LocResult("URLError", reqs2, None, None, None)
        ELSE IF doys = {} THEN LocResult("RuntimeError", reqs2, None, None, None)
        ELSE IF ~day_html.ok THEN LocResult("URLError", reqs3, None, None, None)
        ELSE IF fs = {} THEN LocResult("RuntimeError", reqs3, None, None, None)
        ELSE LocResult("ok", reqs3, Some(year), Some(doy), Some(PickLatest(fs)))

\* the archives latest_rass_file is applied to
RootListings ==
    {TransportFailure} \cup
    {Listing(S) : S \in SUBSET {Href("year", 2025), Href("year", 2026), Href("doy", 45)}}

YearListings ==
    {TransportFailure, Listing({}), Listing({Href("doy", 7), Href("year", 2025)}),
     Listing({Href("doy", 7), Href("doy", 45)})}

DayListings ==
    {TransportFailure, Listing({Href("other", 0)}), Listing({Href("file", 1)}),
     Listing({Href("file", 1), Href("file", 2)})}

\* the answer to the GET of the profile file itself
FileAnswer(st, lines) == [status |-> st, text |-> lines]

Webs ==
    [root : RootListings,
     year : [YearNames -> YearListings],
     day  : [YearNames \X DoyNames -> DayListings],
     file : {FileAnswer("URLError", <<>>)}]

NotCalled == LocResult("", <<>>, None, None, None)

(***************************************************************************)
(* ProfileParser: parse_rass_profile() / parse_rass().                     *)
(* The raw text is a sequence of lines, a line the sequence of its         *)
(* whitespace-separated fields.  A field is a number (v, in thousandths:   *)
(* "0.100" is 100), a word starting with HT, a word starting with $, or    *)
(* any other word.  A word is a text float() refuses; the tokens float()   *)
(* reads as a number without being a decimal (nan, inf) are not among the  *)
(* fields.  Altitudes are whole meters (km field * 1000), temperatures     *)
(* thousandths of a degree.                                                *)
(***************************************************************************)
Num(v) == [k |-> "num", v |-> v]

Word(k) == [k |-> k, v |-> 0]

MissingTemp == 999999

\* line.strip().startswith(w)
StartsWith(line, w) == Len(line) > 0 /\ line[1].k = w

\* the index after the first line starting with HT, 0 when there is none
RECURSIVE FindStart(_, _)
FindStart(lines, idx) ==
    IF idx > Len(lines) THEN 0
    ELSE IF StartsWith(lines[idx], "HT") THEN idx + 1
    ELSE FindStart(lines, idx + 1)

\* a loop that reads on past a blank line or a line starting with $
RECURSIVE ReadTableNoStop(_, _, _)
ReadTableNoStop(lines, idx, points) ==
    IF idx > Len(lines) THEN points
    ELSE LET line == lines[idx]
         IN  IF Len(line) < 2 \/ line[1].k # "num" \/ line[2].k # "num"
                \/ line[2].v >= MissingTemp * 1000
             THEN ReadTableNoStop(lines, idx + 1, points)
             ELSE ReadTableNoStop(lines, idx + 1,
                                  Append(points, [alt |-> line[1].v, temp |-> line[2].v]))

\* the loop over lines[start_idx:] collecting (alt_m, temp_c)
RECURSIVE ReadTable(_, _, _)
ReadTable(lines, idx, points) ==
    IF idx > Len(lines) THEN points
    ELSE LET line == lines[idx]
         IN  IF Len(line) = 0 \/ StartsWith(line, "$") THEN points
             ELSE IF Len(line) < 2 THEN ReadTable(lines, idx + 1, points)
             ELSE IF line[1].k # "num" \/ line[2].k # "num"
                  THEN ReadTable(lines, idx + 1, points)
             ELSE IF line[2].v >= MissingTemp * 1000
                  THEN ReadTable(lines, idx + 1, points)
             ELSE ReadTable(lines, idx + 1,
                            Append(points, [alt |-> line[1].v, temp |-> line[2].v]))

\* points.sort(key=lambda x: x[0]): stable, ascending altitude
RECURSIVE SortByAlt(_)
SortByAlt(points) ==
    IF Len(points) <= 1 THEN points
    ELSE LET n    == Len(points)
             init == SortByAlt(SubSeq(points, 1, n - 1))
             x    == points[n]
             k    == Cardinality({i \in 1..(n - 1) : init[i].alt <= x.alt})
         IN  SubSeq(init, 1, k) \o <<x>> \o SubSeq(init, k + 1, n - 1)

\* min_alt, max_alt of the grid
GridMinFloored(points) == FloorTo100(points[1].alt)

GridMin(points) == CeilTo100(points[1].alt)

GridMax(points) == FloorTo100(points[Len(points)].alt)

\* list(range(min_alt, max_alt + 1, 100))
AltGrid(lo, hi) ==
    IF hi < lo THEN <<>>
    ELSE [i \in 1..((hi - lo) \div 100 + 1) |-> lo + 100 * (i - 1)]

\* a pointer that stays where it is
AdvanceNever(points, j, alt) == j

\* while j < len(points) - 2 and points[j + 1][0] < alt: j += 1   (j 0-based)
RECURSIVE Advance(_, _, _)
Advance(points, j, alt) ==
    IF j < Len(points) - 2 /\ points[j + 2].alt < alt
    THEN Advance(points, j + 1, alt)
    ELSE j

\* the interpolation loop from grid index i with pointer j; a temperature
\* is the fraction tnum / tden of a thousandth of a degree
RECURSIVE Interpolate(_, _, _, _)
Interpolate(points, grid, i, j) ==
    IF i > Len(grid) THEN <<>>
    ELSE LET alt == grid[i]
             j2  == Advance(points, j, alt)
             p0  == points[j2 + 1]
             p1  == points[j2 + 2]
             row == IF p1.alt = p0.alt
                    THEN [alt |-> alt, j |-> j2, tnum |-> p0.temp, tden |-> 1]
                    ELSE [alt |-> alt, j |-> j2,
                          tnum |-> p0.temp * (p1.alt - p0.alt)
                                   + (p1.temp - p0.temp) * (alt - p0.alt),
                          tden |-> p1.alt - p0.alt]
         IN  <<row>> \o Interpolate(points, grid, i + 1, j2)

ParseResult(st, pts, out) == [status |-> st, points |-> pts, out |-> out]

ParseRass(lines) ==
    LET start_idx == FindStart(lines, 1)
        points    == ReadTable(lines, start_idx, <<>>)
        sorted    == SortByAlt(points)
        grid      == AltGrid(GridMin(sorted), GridMax(sorted))
    IN  IF start_idx = 0 THEN ParseResult("RuntimeError", <<>>, <<>>)
        ELSE IF Len(points) < 2 THEN ParseResult("RuntimeError", points, <<>>)
        ELSE ParseResult("ok", sorted, Interpolate(sorted, grid, 1, 0))

NotParsed == ParseResult("", <<>>, <<>>)

\* the lines the parser is applied to
MaxLines == 4

ParseLines ==
    {<<>>, <<Word("HT"), Word("txt")>>, <<Word("$")>>, <<Num(100)>>,
     <<Word("txt"), Num(15200)>>, <<Num(100), Word("txt")>>,
     <<Num(250), Num(MissingTemp * 1000)>>,
     <<Num(-50), Num(16000)>>, <<Num(110), Num(15200)>>,
     <<Num(190), Num(14100), Word("txt")>>, <<Num(300), Num(12800)>>,
     <<Num(300), Num(11000)>>}

Texts == SeqsUpTo(ParseLines, MaxLines)

(***************************************************************************)
(* The MADIS query service.                                                *)
(* A response fails in transport ("URLError"), is malformed XML            *)
(* ("ParseError") or is a sequence of <record> elements.  An attribute is  *)
(* None when the record lacks it.  ObTime is a string, here the fixed      *)
(* width "H:MM" part of YYYY-MM-DDTHH:MM as a sequence of character codes  *)
(* (0..9 the digits, anything above a non-digit); elev and data_value are  *)
(* strings that float() accepts (num, with value v) or refuses.            *)
(* Elevations are meters, data_value hundredths of a kelvin, now_utc and   *)
(* ages half minutes.                                                      *)
(***************************************************************************)
AllStations ==
    <<"KC60YN", "SE068", "SE234", "MTIC1", "MPWC1", "421SE", "SE053", "KSBA">>

NStations == 2

STATIONS == SubSeq(AllStations, 1, NStations)

StationIds == Range(STATIONS)

Number(v) == Some([num |-> TRUE, v |-> v])

NotANumber == Some([num |-> FALSE, v |-> 0])

Record(var, shef, ob, elev, val) ==
    [var |-> var, shef_id |-> shef, ObTime |-> ob, elev |-> elev,
     data_value |-> val, provider |-> "MesoWest"]

Response(st, recs) == [status |-> st, records |-> recs]

\* Python's a > b on strings
RECURSIVE StrGreater(_, _)
StrGreater(a, b) ==
    IF a = <<>> THEN FALSE
    ELSE IF b = <<>> THEN TRUE
    ELSE IF a[1] # b[1] THEN a[1] > b[1]
    ELSE StrGreater(Tail(a), Tail(b))

\* datetime.strptime(ob_time, "%Y-%m-%dT%H:%M"): whether it parses, and the
\* minute it denotes
TimeParses(str) == Len(str) = 3 /\ (\A i \in 1..3 : str[i] <= 9) /\ str[2] <= 5

Minutes(str) == 60 * str[1] + 10 * str[2] + str[3]

KelvinOffset == 27315

\* the row built from an accepted record
RowOf(id, rec) ==
    [id |-> id, elev_m |-> Some(rec.elev[1].v),
     temp_c |-> Some(rec.data_value[1].v - KelvinOffset),
     ob_time |-> rec.ObTime, provider |-> rec.provider]

MissingRow(id, provider) ==
    [id |-> id, elev_m |-> None, temp_c |-> None, ob_time |-> None,
     provider |-> provider]

\* f"fetch_error: {exc}" and "xml_error: %s" % exc
FetchErrorText(kind) ==
    CASE kind = "URLError"   -> "fetch_error: URLError"
      [] kind = "ParseError" -> "fetch_error: ParseError"
      [] kind = "ValueError" -> "fetch_error: ValueError"

XmlErrorText == "xml_error: ParseError"

(***************************************************************************)
(* Variant latest: query_madis, the snapshot loop and the fallback.        *)
(***************************************************************************)
QueryResult(ok, error, out) == [ok |-> ok, error |-> error, out |-> out]

\* which records query_madis skips (lines 115-122)
SkippedByQueryMadis(rec) ==
    \/ rec.var # "V-T"
    \/ rec.shef_id = None \/ rec.ObTime = None
    \/ rec.elev = None \/ rec.data_value = None

\* whether a row replaces the one kept for its station (line 131)
Replaces(row, out) ==
    row.id \notin DOMAIN out \/ StrGreater(row.ob_time[1], out[row.id].ob_time[1])

\* the loop over root.findall("record") from record i
RECURSIVE MadisLoop(_, _, _)
MadisLoop(recs, i, out) ==
    IF i > Len(recs) THEN QueryResult(TRUE, "", out)
    ELSE LET rec == recs[i]
         IN  IF SkippedByQueryMadis(rec) THEN MadisLoop(recs, i + 1, out)
             ELSE IF ~rec.elev[1].num \/ ~rec.data_value[1].num
                  THEN QueryResult(FALSE, "ValueError", <<>>)
             ELSE LET row == RowOf(rec.shef_id[1], rec)
                  IN  IF Replaces(row, out)
                      THEN MadisLoop(recs, i + 1, (row.id :> row) @@ out)
                      ELSE MadisLoop(recs, i + 1, out)

QueryMadis(resp) ==
    IF resp.status # "ok" THEN QueryResult(FALSE, resp.status, <<>>)
    ELSE MadisLoop(resp.records, 1, <<>>)

\* snapshot.get(station_id) / rows.get(station_id)
Get(out, id) == IF id \in DOMAIN out THEN Some(out[id]) ELSE None

SnapshotRange == 73

LagChecks == <<0, 1, 2, 3, 6, 9, 12, 18, 24, 36, 48, 72, 96, 120, 144, 168>>

MaxWorkersLatest == 3

\* how many snapshot lags and how many lag checks the model goes through
MaxSnapshots == 2

MaxChecks == 2

SnapshotLags == IF MaxSnapshots < SnapshotRange THEN MaxSnapshots ELSE SnapshotRange

lag_checks == SubSeq(LagChecks, 1, IF MaxChecks < Len(LagChecks) THEN MaxChecks ELSE Len(LagChecks))

\* a loop over every station instead, pending or not
SnapshotMergeAll(pend, res, snapshot) ==
    [s \in StationIds |->
        IF Get(snapshot, s) # None THEN Get(snapshot, s) ELSE res[s]]

\* the for loop over list(pending) (lines 211-215): the new results
SnapshotMerge(pend, res, snapshot) ==
    [s \in StationIds |->
        IF s \in pend /\ Get(snapshot, s) # None THEN Get(snapshot, s) ELSE res[s]]

SnapshotPending(pend, snapshot) == {s \in pend : Get(snapshot, s) = None}

\* the list fetch_madis_stations returns (line 224)
FinalRows(res) ==
    [i \in 1..Len(STATIONS) |->
        IF res[STATIONS[i]] # None THEN res[STATIONS[i]][1]
        ELSE MissingRow(STATIONS[i], "no_temp")]

\* one pass of the loop of fetch_one_station_fallback: the worker after it
\* (a worker that returned keeps its row only, its locals are gone)
Worker(st, idx, last_error, row) ==
    [st |-> st, idx |-> idx, last_error |-> last_error, row |-> row]

NoWorker == Worker("none", 0, None, None)

FallbackPass(station_id, w, q) ==
    LET last_error == IF q.ok THEN w.last_error ELSE Some(q.error)
    IN  IF q.ok /\ Get(q.out, station_id) # None
        THEN Worker("done", 0, None, Get(q.out, station_id))
        ELSE IF w.idx < Len(lag_checks)
        THEN Worker("running", w.idx + 1, last_error, None)
        ELSE Worker("done", 0, None,
                    Some(MissingRow(station_id,
                                    IF last_error # None
                                    THEN FetchErrorText(last_error[1])
                                    ELSE "no_temp")))

(***************************************************************************)
(* Variant recent60: fetch_station.                                        *)
(***************************************************************************)
RecentMinutes == 60

\* which records fetch_station skips (lines 162-169)
SkippedByFetchStation(rec) ==
    \/ rec.var # "V-T"
    \/ rec.ObTime = None \/ rec.elev = None \/ rec.data_value = None

\* records.sort(key=strptime(ObTime)); records[-1]: the sort is stable, so
\* of the records of the greatest time the last one of the response
LastAfterSort(records) ==
    LET n == Len(records)
        i == CHOOSE k \in 1..n :
                 \A m \in 1..n :
                     \/ Minutes(records[m].ObTime[1]) < Minutes(records[k].ObTime[1])
                     \/ (Minutes(records[m].ObTime[1]) = Minutes(records[k].ObTime[1])
                         /\ m <= k)
    IN  records[i]

\* lines 134-184: what fetch_station selects before it builds the row
Selection(kind, rec) == [kind |-> kind, rec |-> rec]

SelectRecord(resp) ==
    LET kept == SelectSeq(resp.records, LAMBDA rec : ~SkippedByFetchStation(rec))
    IN  IF resp.status = "URLError" THEN Selection("fetch_error", <<>>)
        ELSE IF resp.status = "ParseError" THEN Selection("xml_error", <<>>)
        ELSE IF \E i \in 1..Len(kept) :
                    ~kept[i].elev[1].num \/ ~kept[i].data_value[1].num
             THEN Selection("ValueError", <<>>)
        ELSE IF kept = <<>> THEN Selection("no_temp", <<>>)
        ELSE IF \E i \in 1..Len(kept) : ~TimeParses(kept[i].ObTime[1])
             THEN Selection("ValueError", <<>>)
        ELSE Selection("record", LastAfterSort(kept))

\* a limit half a minute later
IsRecentLax(age) == age <= 2 * RecentMinutes + 1

\* recent = age_min <= 60.0 (ages in half minutes)
IsRecent(age) == age <= 2 * RecentMinutes

\* a missing row that carries an age
DirectMissingAged(id, provider) ==
    [id |-> id, elev_m |-> None, temp_c |-> None, ob_time |-> None,
     age_min |-> Some(0), provider |-> provider, recent |-> FALSE]

DirectMissing(id, provider) ==
    [id |-> id, elev_m |-> None, temp_c |-> None, ob_time |-> None,
     age_min |-> None, provider |-> provider, recent |-> FALSE]

\* lines 185-196 and the three early returns: the row of fetch_station
DirectRow(station_id, now, sel) ==
    CASE sel.kind = "fetch_error" -> DirectMissing(station_id, FetchErrorText("URLError"))
      [] sel.kind = "xml_error"   -> DirectMissing(station_id, XmlErrorText)
      [] sel.kind = "no_temp"     -> DirectMissing(station_id, "no_temp")
      [] sel.kind = "record"      ->
            LET age == now - 2 * Minutes(sel.rec.ObTime[1])
            IN  [id |-> station_id, elev_m |-> Some(sel.rec.elev[1].v),
                 temp_c |-> Some(sel.rec.data_value[1].v - KelvinOffset),
                 ob_time |-> sel.rec.ObTime, age_min |-> Some(age),
                 provider |-> sel.rec.provider, recent |-> IsRecent(age)]

\* station_rows.sort(key=lambda x: order[x["id"]])
Order(id) == CHOOSE i \in 1..Len(STATIONS) : STATIONS[i] = id

RECURSIVE SortByOrder(_)
SortByOrder(rows) ==
    IF Len(rows) <= 1 THEN rows
    ELSE LET n    == Len(rows)
             init == SortByOrder(SubSeq(rows, 1, n - 1))
             x    == rows[n]
             k    == Cardinality({i \in 1..(n - 1) : Order(init[i].id) <= Order(x.id)})
         IN  SubSeq(init, 1, k) \o <<x>> \o SubSeq(init, k + 1, n - 1)

(***************************************************************************)
(* The responses the service is taken to give.  The two complete records   *)
(* of a station differ in time, elevation and value; a record that lacks a *)
(* field, is not V-T, names no or another station, or carries a malformed  *)
(* field holds values (time 2:01, elevation 999, value 300.00) that no     *)
(* complete record holds.                                                  *)
(***************************************************************************)
MaxRecords == 2

T1 == <<0, 5, 9>>

T2 == <<1, 0, 0>>

T3 == <<2, 0, 1>>

GoodRecords(s) ==
    {Record("V-T", Some(s), Some(T1), Number(50), Number(28815)),
     Record("V-T", Some(s), Some(T2), Number(60), Number(28915))}

DefectRecords(s) ==
    {Record("V-P", Some(s), Some(T3), Number(999), Number(30000)),
     Record("V-T", None, Some(T3), Number(999), Number(30000)),
     Record("V-T", Some(s), None, Number(999), Number(30000)),
     Record("V-T", Some(s), Some(T3), None, Number(30000)),
     Record("V-T", Some(s), Some(T3), Number(999), None),
     Record("V-T", Some(s), Some(<<2, 0, 36>>), Number(999), Number(30000)),
     Record("V-T", Some(s), Some(T3), NotANumber, Number(30000)),
     Record("V-T", Some(s), Some(T3), Number(999), NotANumber)}

InsertAt(q, k, x) == SubSeq(q, 1, k) \o <<x>> \o SubSeq(q, k + 1, Len(q))

\* up to MaxRecords complete records in any order, and at most one
\* defective record anywhere among them
Responses(good, defect) ==
    LET G == SeqsUpTo(good, MaxRecords)
    IN  {Response("URLError", <<>>), Response("ParseError", <<>>)}
        \cup {Response("ok", q) : q \in G}
        \cup UNION {{Response("ok", InsertAt(q, k, d)) : k \in 0..Len(q), d \in defect} :
                       q \in G}

\* the responses to a query for one station and to a CA snapshot query
StationResponses(s) == Responses(GoodRecords(s), DefectRecords(s))

SnapshotResponses ==
    Responses(UNION {GoodRecords(s) : s \in StationIds}, DefectRecords(STATIONS[1]))

\* The history kept beside the program state: what the responses held.
\* A record is usable when it is V-T and carries all four fields.
Usable(rec) ==
    /\ rec.var = "V-T"
    /\ rec.shef_id # None /\ rec.ObTime # None
    /\ rec.elev # None /\ rec.data_value # None

UsableFor(resp, s) ==
    {i \in 1..Len(resp.records) :
        Usable(resp.records[i]) /\ resp.records[i].shef_id = Some(s)}

Core(row) == <<row.ob_time, row.elev_m, row.temp_c>>

\* the (time, elevation, temperature) of the usable record of s of the
\* greatest time, when the response holds several well-formed ones of
\* different times; None otherwise
Latest(resp, s) ==
    LET U == UsableFor(resp, s)
        r(i) == resp.records[i]
    IN  IF /\ \A i \in U : TimeParses(r(i).ObTime[1]) /\ r(i).elev[1].num
                           /\ r(i).data_value[1].num
           /\ \E i, k \in U : Minutes(r(i).ObTime[1]) # Minutes(r(k).ObTime[1])
        THEN LET m == CHOOSE i \in U :
                          \A k \in U : Minutes(r(k).ObTime[1]) <= Minutes(r(i).ObTime[1])
             IN  Some(Core(RowOf(s, r(m))))
        ELSE None

Held(resp, s) == [usable |-> UsableFor(resp, s) # {}, latest |-> Latest(resp, s)]

\* per station: failed, an attempt made for it ended in an error;
\* unbacked, a row with values was fixed from a response that held no
\* usable record of the station; stale, the row fixed is not the latest of
\* the several usable records of the response; snap, the station's row in
\* the first snapshot response that held one; checks, the lags its fallback
\* queries asked for; hits, those of them whose response held its row
StationHist(failed, unbacked, stale, snap, checks, hits) ==
    [failed |-> failed, unbacked |-> unbacked, stale |-> stale, snap |-> snap,
     checks |-> checks, hits |-> hits]

HistInit ==
    [snaps |-> <<>>,
     st |-> [s \in StationIds |-> StationHist(FALSE, FALSE, FALSE, None, <<>>, <<>>)]]

\* whether fixing `row` (None: none fixed) from a response that held `held`
\* is unbacked, and whether it is stale
Unbacked(row, held) == row # None /\ row[1].elev_m # None /\ ~held.usable

Stale(row, held) ==
    row # None /\ row[1].elev_m # None /\ held.latest # None
    /\ Core(row[1]) # held.latest[1]

\* what a query comes to: the program's result and what the response held
SnapshotOutcomes ==
    {[q |-> QueryMadis(resp), held |-> [s \in StationIds |-> Held(resp, s)]] :
        resp \in SnapshotResponses}

FallbackOutcomes ==
    [s \in StationIds |->
        {[q |-> QueryMadis(resp), held |-> Held(resp, s)] : resp \in StationResponses(s)}]

DirectOutcomes ==
    [s \in StationIds |->
        {[sel |-> SelectRecord(resp), held |-> Held(resp, s)] : resp \in StationResponses(s)}]

(***************************************************************************)
(* The renderer: draw_chart (latest) and draw_svg (recent60).              *)
(* The chart is the record of what the markup holds: the <path> elements   *)
(* by class, the vertical axis bounds, the station markers and labels in   *)
(* the order drawn, and the caption.  Pixel rows are kept exact: a row y   *)
(* is held as the integer y * scale, scale being y_max - y_min.            *)
(***************************************************************************)
Height == 560

MarginTop == 50

MarginBottom == 80

PlotH == Height - MarginTop - MarginBottom

LabelStep == 12

LabelTopPad == 10

LabelBottomPad == 4

AttemptsLatest == 30

AttemptsRecent == 25

SetMin(S) == CHOOSE x \in S : \A y \in S : x <= y

Abs(x) == IF x < 0 THEN -x ELSE x

\* draw_chart: station_valid (line 243)
StationValid(rows) == SelectSeq(rows, LAMBDA r : r.temp_c # None /\ r.elev_m # None)

Ids(rows) == [i \in 1..Len(rows) |-> rows[i].id]

Elevs(rows) == {rows[i].elev_m[1] : i \in {k \in 1..Len(rows) : rows[k].elev_m # None}}

YRange(lo, hi) == [y_min |-> lo, y_max |-> hi]

\* draw_chart lines 245-251
YRangeLatest(points, valid) ==
    LET lo == FloorTo100(SetMin({points[1].alt, 0} \cup Elevs(valid)))
        hi == CeilTo100(SetMax({points[Len(points)].alt} \cup Elevs(valid)))
    IN  YRange(lo, IF hi = lo THEN hi + 100 ELSE hi)

\* draw_svg lines 216-220
YRangeRecent(points, recent) ==
    LET alts == Elevs(recent)
        lo   == IF alts # {}
                THEN FloorTo100(SetMin({0, points[1].alt} \cup alts))
                ELSE 0
        hi   == IF alts # {}
                THEN CeilTo100(SetMax({points[Len(points)].alt} \cup alts))
                ELSE points[Len(points)].alt
    IN  YRange(lo, IF hi <= lo THEN lo + 100 ELSE hi)

\* y_to_svg / y_to_px, times the scale
YPx(alt, yr) ==
    MarginTop * (yr.y_max - yr.y_min) + (yr.y_max - alt) * PlotH

\* all(abs(label_y - prev) >= 12 for prev in used_label_y)
Clear(y, used, scale) ==
    \A m \in 1..Len(used) : Abs(y - used[m]) >= LabelStep * scale

Nudged(y, tries, found) == [y |-> y, tries |-> tries, found |-> found]

\* a loop that takes the first position whatever the labels placed
NudgeNone(y, used, n, limit, scale) == Nudged(y, n, TRUE)

\* for _ in range(limit): if all(...): break; label_y += 12
RECURSIVE Nudge(_, _, _, _, _)
Nudge(y, used, n, limit, scale) ==
    IF n = limit THEN Nudged(y, n, FALSE)
    ELSE IF Clear(y, used, scale) THEN Nudged(y, n, TRUE)
    ELSE Nudge(y + LabelStep * scale, used, n + 1, limit, scale)

\* max(margin_top + 10, min(height - margin_bottom - 4, label_y))
Clamp(y, scale) ==
    LET top    == (MarginTop + LabelTopPad) * scale
        bottom == (Height - MarginBottom - LabelBottomPad) * scale
        below  == IF y < bottom THEN y ELSE bottom
    IN  IF below > top THEN below ELSE top

\* the loop over the plotted stations from the k-th: marker, label
RECURSIVE PlaceLabels(_, _, _, _, _, _)
PlaceLabels(plotted, yr, k, used, limit, scale) ==
    IF k > Len(plotted) THEN <<>>
    ELSE LET y_px  == YPx(plotted[k].elev_m[1], yr)
             n     == Nudge(y_px, used, 0, limit, scale)
             final == Clamp(n.y, scale)
         IN  <<[id |-> plotted[k].id, y_px |-> y_px, y |-> n.y, tries |-> n.tries,
                found |-> n.found, label_y |-> final]>>
             \o PlaceLabels(plotted, yr, k + 1, Append(used, final), limit, scale)

Chart(yr, labels, caption) ==
    [paths |-> <<"rass", "dalr">>, y_min |-> yr.y_min, y_max |-> yr.y_max,
     scale |-> yr.y_max - yr.y_min,
     plotted |-> [i \in 1..Len(labels) |-> labels[i].id],
     labels |-> labels, caption |-> caption]

\* draw_chart: missing (line 380)
Missing(rows) == Ids(SelectSeq(rows, LAMBDA r : r.temp_c = None \/ r.elev_m = None))

DrawChart(points, rows) ==
    LET valid == StationValid(rows)
        yr    == YRangeLatest(points, valid)
    IN  Chart(yr, PlaceLabels(valid, yr, 1, <<>>, AttemptsLatest, yr.y_max - yr.y_min),
              Missing(rows))

\* recent60 main(): station_recent (line 363)
StationRecent(rows) == SelectSeq(rows, LAMBDA r : r.recent)

\* a caption of the rows without values only
ExcludedMissing(all) == Ids(SelectSeq(all, LAMBDA r : r.elev_m = None))

\* draw_svg: excluded (line 338)
Excluded(all) == Ids(SelectSeq(all, LAMBDA r : ~r.recent))

DrawSvg(points, recent, all) ==
    LET yr == YRangeRecent(points, recent)
    IN  Chart(yr, PlaceLabels(recent, yr, 1, <<>>, AttemptsRecent, yr.y_max - yr.y_min),
              Excluded(all))

\* what drawing raises: rass_points[0] on an empty profile (IndexError),
\* arithmetic on an absent value of a plotted row of recent60 (TypeError)
DrawStatus(v, points, rows) ==
    IF points = <<>> THEN "IndexError"
    ELSE IF v = "recent60"
            /\ \E i \in 1..Len(rows) :
                   rows[i].recent /\ (rows[i].temp_c = None \/ rows[i].elev_m = None)
         THEN "TypeError"
    ELSE "ok"

\* what writing the CSV and the summary raises: "%.2f" of an absent value
\* of a row whose elev_m is set (TypeError)
CsvStatus(v, rows) ==
    IF \E i \in 1..Len(rows) :
           /\ rows[i].elev_m # None
           /\ \/ rows[i].temp_c = None
              \/ v = "recent60" /\ rows[i].age_min = None
    THEN "TypeError"
    ELSE "ok"

(***************************************************************************)
(* main() of either variant.                                               *)
(***************************************************************************)
NowChoices == {240, 241}

HeaderLine == <<Word("HT"), Word("txt")>>

\* a profile of three points (grid 200, 300, 400), a table of one valid
\* point, a text without the HT line
RunFiles ==
    {FileAnswer("URLError", <<>>),
     FileAnswer("ok", <<HeaderLine, <<Num(110), Num(15200)>>, <<Num(300), Num(12800)>>,
                        <<Num(450), Num(11000)>>>>),
     FileAnswer("ok", <<HeaderLine, <<Num(110), Num(15200)>>,
                        <<Num(300), Num(MissingTemp * 1000)>>>>),
     FileAnswer("ok", <<<<Num(110), Num(15200)>>, <<Num(300), Num(12800)>>>>)}

WebOk(f) ==
    [root |-> Listing({Href("year", 2025), Href("year", 2026)}),
     year |-> [y \in YearNames |-> Listing({Href("doy", 7), Href("doy", 45)})],
     day  |-> [k \in YearNames \X DoyNames |-> Listing({Href("file", 1), Href("file", 2)})],
     file |-> f]

\* archives on which locating fails at each level in each way, and the
\* archive on which it succeeds with each answer to the GET of the file
RunWebs ==
    {[WebOk(f) EXCEPT !.root = TransportFailure] : f \in RunFiles} \cup
    {[WebOk(f) EXCEPT !.root = Listing({})] : f \in RunFiles} \cup
    {[WebOk(f) EXCEPT !.year[2026] = TransportFailure] : f \in RunFiles} \cup
    {[WebOk(f) EXCEPT !.year[2026] = Listing({})] : f \in RunFiles} \cup
    {[WebOk(f) EXCEPT !.day[<<2026, 45>>] = TransportFailure] : f \in RunFiles} \cup
    {[WebOk(f) EXCEPT !.day[<<2026, 45>>] = Listing({Href("other", 0)})] : f \in RunFiles} \cup
    {WebOk(f) : f \in RunFiles}

\* a main() that went on after a failed call
PropagatesNothing(status) == FALSE

\* main() has no try/except: whatever a call raises ends the run
Propagates(status) == status # "ok"

Init ==
    /\ variant \in {"latest", "recent60"}
    /\ pc = "locate"
    /\ err = ""
    /\ now_utc \in IF variant = "recent60" THEN NowChoices ELSE {0}
    /\ web \in RunWebs
    /\ located = NotCalled
    /\ text = <<>>
    /\ parsed = NotParsed
    /\ rass_points = <<>>
    /\ lag_h = 0
    /\ pending = {}
    /\ results = [s \in StationIds |-> None]
    /\ fut = [s \in StationIds |-> NoWorker]
    /\ station_rows = <<>>
    /\ hist = HistInit
    /\ chart = None
    /\ files = {}

\* year, doy, latest_file = latest_rass_file()
MainLocate ==
    /\ pc = "locate"
    /\ located' = LatestRassFile(web)
    /\ IF Propagates(located'.status)
       THEN pc' = "failed" /\ err' = located'.status
       ELSE pc' = "fetch" /\ err' = err
    /\ UNCHANGED <<variant, now_utc, web, text, parsed, rass_points, lag_h,
                   pending, results, fut, station_rows, hist, chart, files>>

\* raw = fetch_text(rass_url); RASS_TXT_PATH.write_text(raw)
MainFetchText ==
    /\ pc = "fetch"
    /\ IF Propagates(web.file.status)
       THEN pc' = "failed" /\ err' = web.file.status /\ UNCHANGED <<text, files>>
       ELSE pc' = "parse" /\ err' = err /\ text' = web.file.text
            /\ files' = files \cup {"raw"}
    /\ UNCHANGED <<variant, now_utc, web, located, parsed, rass_points, lag_h,
                   pending, results, fut, station_rows, hist, chart>>

\* obs_dt, rass_points = parse(raw); then the station-fetch step begins:
\* latest sets pending and results, recent60 submits every station
MainParse ==
    /\ pc = "parse"
    /\ parsed' = ParseRass(text)
    /\ IF Propagates(parsed'.status)
       THEN /\ pc' = "failed" /\ err' = parsed'.status
            /\ UNCHANGED <<rass_points, pending, fut>>
       ELSE /\ err' = err
            /\ rass_points' = parsed'.out
            /\ IF variant = "latest"
               THEN /\ pc' = "snapshot"
                    /\ pending' = StationIds
                    /\ fut' = fut
               ELSE /\ pc' = "pool"
                    /\ pending' = pending
                    /\ fut' = [s \in StationIds |-> Worker("queued", 0, None, None)]
    /\ UNCHANGED <<variant, now_utc, web, located, text, lag_h, results,
                   station_rows, hist, chart, files>>

\* one pass of the snapshot loop of fetch_madis_stations (lines 203-215)
SnapshotQuery ==
    /\ variant = "latest" /\ pc = "snapshot"
    /\ lag_h < SnapshotLags /\ pending # {}
    /\ \E o \in SnapshotOutcomes :
          LET got(s) == IF o.q.ok THEN Get(o.q.out, s) ELSE None
          IN  /\ results' = IF o.q.ok THEN SnapshotMerge(pending, results, o.q.out)
                            ELSE results
              /\ pending' = IF o.q.ok THEN SnapshotPending(pending, o.q.out)
                            ELSE pending
              /\ hist' =
                    [snaps |-> Append(hist.snaps, lag_h),
                     st |-> [s \in StationIds |->
                        LET h == hist.st[s]
                            fixed == IF results'[s] # results[s] THEN results'[s] ELSE None
                        IN  StationHist(
                                h.failed,
                                h.unbacked \/ Unbacked(fixed, o.held[s]),
                                h.stale \/ Stale(fixed, o.held[s]),
                                IF h.snap = None THEN got(s) ELSE h.snap,
                                h.checks, h.hits)]]
    /\ lag_h' = lag_h + 1
    /\ UNCHANGED <<variant, pc, err, now_utc, web, located, text, parsed,
                   rass_points, fut, station_rows, chart, files>>

\* the loop is over: submit the stations still pending to the pool, or
\* return the rows at once when none is (lines 204, 217-224)
EndSnapshotLoop ==
    /\ variant = "latest" /\ pc = "snapshot"
    /\ (lag_h >= SnapshotLags \/ pending = {})
    /\ IF pending # {}
       THEN /\ fut' = [s \in StationIds |->
                          IF s \in pending THEN Worker("queued", 1, None, None)
                          ELSE fut[s]]
            /\ pc' = "pool"
            /\ station_rows' = station_rows
       ELSE /\ fut' = fut
            /\ pc' = "render"
            /\ station_rows' = FinalRows(results)
    /\ UNCHANGED <<variant, err, now_utc, web, located, text, parsed,
                   rass_points, lag_h, pending, results, hist, chart, files>>

\* results[row["id"]] = row (line 222)
FallbackMerge(res, row) == [res EXCEPT ![row.id] = Some(row)]

\* a pool worker (at most three at a time) makes the next query of
\* fetch_one_station_fallback for station s
FallbackQuery(s) ==
    /\ variant = "latest" /\ pc = "pool"
    /\ fut[s].st \in {"queued", "running"}
    /\ fut[s].st = "queued" =>
           Cardinality({t \in StationIds : fut[t].st = "running"}) < MaxWorkersLatest
    /\ \E o \in FallbackOutcomes[s] :
          LET w == FallbackPass(s, fut[s], o.q)
              h == hist.st[s]
          IN  /\ fut' = [fut EXCEPT ![s] = w]
              /\ hist' = [hist EXCEPT !.st[s] =
                    StationHist(h.failed \/ ~o.q.ok,
                                h.unbacked \/ Unbacked(w.row, o.held),
                                h.stale \/ Stale(w.row, o.held),
                                h.snap,
                                Append(h.checks, lag_checks[fut[s].idx]),
                                IF o.q.ok /\ Get(o.q.out, s) # None
                                THEN Append(h.hits, lag_checks[fut[s].idx])
                                ELSE h.hits)]
    /\ UNCHANGED <<variant, pc, err, now_utc, web, located, text, parsed,
                   rass_points, lag_h, pending, results, station_rows, chart, files>>

\* as_completed hands main a finished future; after the last one the pool
\* is left and the rows are returned (lines 220-224)
CollectFallback(s) ==
    /\ variant = "latest" /\ pc = "pool"
    /\ fut[s].st = "done"
    /\ LET res == FallbackMerge(results, fut[s].row[1])
           f   == [fut EXCEPT ![s].st = "collected"]
       IN  /\ results' = res
           /\ fut' = f
           /\ IF \A t \in StationIds : f[t].st \in {"none", "collected"}
              THEN pc' = "render" /\ station_rows' = FinalRows(res)
              ELSE pc' = pc /\ station_rows' = station_rows
    /\ UNCHANGED <<variant, err, now_utc, web, located, text, parsed,
                   rass_points, lag_h, pending, hist, chart, files>>

\* a pool worker runs fetch_station for station s; it shares nothing with
\* the other workers, so the call is one step
FetchStation(s) ==
    /\ variant = "recent60" /\ pc = "pool"
    /\ fut[s].st = "queued"
    /\ \E o \in DirectOutcomes[s] :
          LET h == hist.st[s]
              w == IF o.sel.kind = "ValueError"
                   THEN Worker("done", 0, Some("ValueError"), None)
                   ELSE Worker("done", 0, None, Some(DirectRow(s, now_utc, o.sel)))
          IN  /\ fut' = [fut EXCEPT ![s] = w]
              /\ hist' = [hist EXCEPT !.st[s] =
                    StationHist(o.sel.kind \in {"fetch_error", "xml_error", "ValueError"},
                                Unbacked(w.row, o.held), Stale(w.row, o.held),
                                h.snap, h.checks, h.hits)]
    /\ UNCHANGED <<variant, pc, err, now_utc, web, located, text, parsed,
                   rass_points, lag_h, pending, results, station_rows, chart, files>>

\* station_rows.append(fut.result()) in completion order; result() raises
\* what the worker raised; after the last future the rows are sorted
\* (lines 358-361)
CollectDirect(s) ==
    /\ variant = "recent60" /\ pc = "pool"
    /\ fut[s].st = "done"
    /\ LET f == [fut EXCEPT ![s].st = "collected"]
       IN  /\ fut' = f
           /\ IF fut[s].last_error # None
              THEN /\ pc' = IF Propagates(fut[s].last_error[1]) THEN "failed" ELSE pc
                   /\ err' = fut[s].last_error[1]
                   /\ station_rows' = station_rows
              ELSE LET rows == Append(station_rows, fut[s].row[1])
                   IN  /\ err' = err
                       /\ IF \A t \in StationIds : f[t].st = "collected"
                          THEN pc' = "render" /\ station_rows' = SortByOrder(rows)
                          ELSE pc' = pc /\ station_rows' = rows
    /\ UNCHANGED <<variant, now_utc, web, located, text, parsed, rass_points,
                   lag_h, pending, results, hist, chart, files>>

\* svg = draw(...); CHART_PATH.write_text(svg).  Drawing starts with
\* rass_points[0], an IndexError on an empty profile
Render ==
    /\ pc = "render"
    /\ LET status == DrawStatus(variant, rass_points, station_rows)
       IN  IF Propagates(status)
           THEN pc' = "failed" /\ err' = status /\ UNCHANGED <<chart, files>>
           ELSE /\ pc' = "csv" /\ err' = err
                /\ chart' = IF variant = "latest"
                            THEN Some(DrawChart(rass_points, station_rows))
                            ELSE Some(DrawSvg(rass_points, StationRecent(station_rows),
                                              station_rows))
                /\ files' = files \cup {"chart"}
    /\ UNCHANGED <<variant, now_utc, web, located, text, parsed, rass_points,
                   lag_h, pending, results, fut, station_rows, hist>>

\* the CSV report is written (and the summary printed)
WriteCsv ==
    /\ pc = "csv"
    /\ LET status == CsvStatus(variant, station_rows)
       IN  IF Propagates(status)
           THEN pc' = "failed" /\ err' = status /\ files' = files
           ELSE pc' = "done" /\ err' = err /\ files' = files \cup {"csv"}
    /\ UNCHANGED <<variant, now_utc, web, located, text, parsed,
                   rass_points, lag_h, pending, results, fut, station_rows,
                   hist, chart>>

Next ==
    \/ MainLocate
    \/ MainFetchText
    \/ MainParse
    \/ SnapshotQuery
    \/ EndSnapshotLoop
    \/ \E s \in StationIds : FallbackQuery(s)
    \/ \E s \in StationIds : CollectFallback(s)
    \/ \E s \in StationIds : FetchStation(s)
    \/ \E s \in StationIds : CollectDirect(s)
    \/ Render
    \/ WriteCsv

Spec == Init /\ [][Next]_vars

(***************************************************************************)
(* The run on a profile whose grid holds fewer than two points.            *)
(***************************************************************************)
\* valid points at 110 and 190 m (no grid altitude between them) and at 150
\* and 250 m (the grid is 200 m alone)
ShortFiles ==
    {FileAnswer("ok", <<HeaderLine, <<Num(110), Num(15200)>>, <<Num(190), Num(14100)>>>>),
     FileAnswer("ok", <<HeaderLine, <<Num(150), Num(15200)>>, <<Num(250), Num(12800)>>>>)}

InitShort ==
    /\ variant \in {"latest", "recent60"}
    /\ pc = "locate"
    /\ err = ""
    /\ now_utc \in IF variant = "recent60" THEN NowChoices ELSE {0}
    /\ web \in {WebOk(f) : f \in ShortFiles}
    /\ located = NotCalled
    /\ text = <<>>
    /\ parsed = NotParsed
    /\ rass_points = <<>>
    /\ lag_h = 0
    /\ pending = {}
    /\ results = [s \in StationIds |-> None]
    /\ fut = [s \in StationIds |-> NoWorker]
    /\ station_rows = <<>>
    /\ hist = HistInit
    /\ chart = None
    /\ files = {}

SpecShort == InitShort /\ [][Next]_vars

(***************************************************************************)
(* The renderer applied to bounded profiles and station rows.              *)
(***************************************************************************)
\* grids 200..400, 0 alone, and -100..0
DrawProfiles ==
    {ParseRass(<<HeaderLine, <<Num(110), Num(15200)>>, <<Num(300), Num(12800)>>,
                 <<Num(450), Num(11000)>>>>).out,
     ParseRass(<<HeaderLine, <<Num(-50), Num(16000)>>, <<Num(50), Num(15200)>>>>).out,
     ParseRass(<<HeaderLine, <<Num(-150), Num(16000)>>, <<Num(50), Num(15200)>>>>).out}

\* the row of a station: c is <<>> (no observation) or <<elevation, fresh>>;
\* at 4:00 (now 240) an observation of 1:00 is recent, one of 0:59 is not
DrawNow == 4 * RecentMinutes

DrawRow(v, id, c) ==
    LET rec == Record("V-T", Some(id), Some(IF c[2] THEN T2 ELSE T1),
                      Number(c[1]), Number(28815))
    IN  IF v = "latest"
        THEN IF c = <<>> THEN MissingRow(id, "no_temp") ELSE RowOf(id, rec)
        ELSE IF c = <<>> THEN DirectMissing(id, "no_temp")
             ELSE DirectRow(id, DrawNow, Selection("record", rec))

DrawRows(v, n, choices) ==
    {[i \in 1..n |-> DrawRow(v, AllStations[i], c[i])] : c \in [1..n -> choices]}

\* every station at the bottom of the axis, just above it, or mid-height:
\* their labels collide
ClusterChoices == {<<>>, <<0, TRUE>>, <<5, TRUE>>, <<200, TRUE>>}

\* stations below zero, inside and above the profile, fresh or not
RangeChoices == {<<>>, <<-20, TRUE>>, <<50, TRUE>>, <<999, TRUE>>, <<50, FALSE>>}

RangeStations == 2

DrawInputs(v) ==
    {<<p, rows>> : p \in {q \in DrawProfiles : q[1].alt = 200},
                   rows \in DrawRows(v, Len(AllStations), ClusterChoices)}
    \cup {<<p, rows>> : p \in DrawProfiles,
                        rows \in DrawRows(v, RangeStations, RangeChoices)}

InitDraw ==
    /\ variant \in {"latest", "recent60"}
    /\ pc = "call"
    /\ \E input \in DrawInputs(variant) :
          rass_points = input[1] /\ station_rows = input[2]
    /\ chart = None
    /\ err = "" /\ now_utc = DrawNow /\ web = <<>> /\ located = NotCalled
    /\ text = <<>> /\ parsed = NotParsed /\ lag_h = 0 /\ pending = {}
    /\ results = <<>> /\ fut = <<>> /\ hist = <<>> /\ files = {}

\* one call of draw_chart(rass_points, stations, ...) or of
\* draw_svg(rass_points, station_recent, station_rows, ...)
CallDraw ==
    /\ pc = "call"
    /\ chart' = IF variant = "latest"
                THEN Some(DrawChart(rass_points, station_rows))
                ELSE Some(DrawSvg(rass_points, StationRecent(station_rows), station_rows))
    /\ pc' = "returned"
    /\ UNCHANGED <<variant, err, now_utc, web, located, text, parsed, rass_points,
                   lag_h, pending, results, fut, station_rows, hist, files>>

SpecDraw == InitDraw /\ [][CallDraw]_vars

(***************************************************************************)
(* Claims about the run (Spec).                                            *)
(***************************************************************************)
\* the station-fetch step is over: the profile was parsed and main() is
\* past the step, or was ended in it
StationStepOver ==
    parsed.status = "ok" /\ pc \in {"render", "csv", "done", "failed"}

\* C1: in both variants, whatever the stations' outcomes and the order in
\* which the workers complete, the station-fetch step yields exactly one
\* row per configured station, row i with id STATIONS[i].
C1_OneRowPerStation ==
    StationStepOver => Ids(station_rows) = STATIONS

\* C2: a failure of a query made for a station never escapes the
\* station-fetch step: the run is never ended by what a station's worker
\* raised.
C2_NeverEscapes ==
    pc = "failed" => \A s \in StationIds : fut[s].last_error = None

\* C3: when locating the file, fetching its text or parsing it fails, the
\* run is ended with that error and neither the chart nor the CSV is
\* written; both are written only when all three succeeded.
C3_FatalProfile ==
    LET reports == files \cap {"chart", "csv"}
        ended(status) == pc = "failed" /\ err = status /\ reports = {}
    IN  /\ located.status \notin {"", "ok"} => ended(located.status) /\ files = {}
        /\ (located.status = "ok" /\ pc # "fetch" /\ web.file.status # "ok") =>
               ended(web.file.status) /\ files = {}
        /\ parsed.status \notin {"", "ok"} => ended(parsed.status)
        /\ reports # {} =>
               /\ located.status = "ok"
               /\ web.file.status = "ok" /\ text = web.file.text
               /\ parsed.status = "ok" /\ parsed = ParseRass(text)
        /\ "csv" \in files => "chart" \in files

\* the text was fetched and saved, parsing it failed: the run is ended
\* with the parser's error and only the raw text is on disk
C3_Witness ==
    /\ pc = "failed" /\ err = "RuntimeError"
    /\ located.status = "ok" /\ parsed.status = "RuntimeError"
    /\ files = {"raw"}

\* C4: in variant latest the snapshot lags are tried in increasing order
\* from 0 (at most 73 of them); the first snapshot response that holds a
\* station fixes its row and takes it out of pending; that row is never
\* replaced; no fallback query is made for a station a snapshot resolved;
\* the fallback of a station still pending after the loop asks the lag
\* checks in listed order and stops at the first hit; each station's final
\* row is the one fixed for it.
C4_FirstSuccessWins ==
    variant = "latest" =>
        /\ hist.snaps = [i \in 1..Len(hist.snaps) |-> i - 1]
        /\ Len(hist.snaps) <= 73
        /\ \A s \in StationIds :
              LET h == hist.st[s]
                  n == Len(h.checks)
              IN  /\ h.snap # None =>
                         /\ results[s] = h.snap /\ s \notin pending
                         /\ h.checks = <<>> /\ fut[s] = NoWorker
                  /\ (pc = "snapshot" /\ h.snap = None) =>
                         s \in pending /\ results[s] = None
                  /\ h.checks # <<>> =>
                         pc # "snapshot" /\ s \in pending /\ h.snap = None
                  /\ n <= Len(LagChecks) /\ h.checks = SubSeq(LagChecks, 1, n)
                  /\ Len(h.hits) <= 1
                  /\ h.hits # <<>> =>
                         /\ h.hits[1] = h.checks[n]
                         /\ fut[s].st \in {"done", "collected"}
                         /\ fut[s].row # None /\ fut[s].row[1].elev_m # None
                  /\ (fut[s].st \in {"done", "collected"} /\ h.hits = <<>>) =>
                         /\ h.checks = lag_checks
                         /\ fut[s].row # None /\ fut[s].row[1].elev_m = None
                  /\ fut[s].st = "collected" => results[s] = fut[s].row
        /\ pc \in {"render", "csv", "done"} =>
              \A i \in 1..Len(STATIONS) :
                  /\ i <= Len(station_rows)
                  /\ results[STATIONS[i]] = Some(station_rows[i])

\* the first station was resolved by the second snapshot, the second one by
\* the second check of its fallback
C4_Witness ==
    /\ variant = "latest" /\ pc = "render"
    /\ hist.snaps = <<0, 1>>
    /\ hist.st[STATIONS[1]].snap # None /\ hist.st[STATIONS[1]].checks = <<>>
    /\ results[STATIONS[1]] = hist.st[STATIONS[1]].snap
    /\ hist.st[STATIONS[2]].checks = <<0, 1>>
    /\ hist.st[STATIONS[2]].hits = <<1>>
    /\ station_rows[2].elev_m # None

\* C5: a station for which no attempt returned a usable record resolves to
\* a row without elevation, temperature and time whose provider is
\* "no_temp", or the error text only when an attempt for it failed: a row
\* with values is never fixed from a response that held no usable record
\* of the station.
C5_NoUsableRecord ==
    pc \in {"render", "csv", "done"} =>
        \A i \in 1..Len(station_rows) :
            LET r == station_rows[i]
                h == hist.st[r.id]
            IN  /\ r.elev_m # None => ~h.unbacked
                /\ r.elev_m = None =>
                       /\ r.temp_c = None /\ r.ob_time = None
                       /\ r.provider = "no_temp" \/ h.failed

\* C6: when a response holds several usable records of a station with
\* different observation times, the row kept is the record of the greatest
\* time, whatever their order (both variants).
C6_LatestKept ==
    \A s \in StationIds : ~hist.st[s].stale

\* the rows the program holds
HeldRows ==
    Range(station_rows)
    \cup {results[s][1] : s \in {t \in StationIds : results[t] # None}}
    \cup {fut[s].row[1] : s \in {t \in StationIds : fut[t].row # None}}

\* C7: in both variants the elevation, temperature and time of a row come
\* from a V-T record that carries station id, time, elevation and value: no
\* record that lacks one of the four supplies them.
C7_UsableOnly ==
    \A r \in HeldRows :
        r.elev_m # None =>
            \E rec \in {x \in GoodRecords(r.id) \cup DefectRecords(r.id) : Usable(x)} :
                Core(RowOf(r.id, rec)) = Core(r)

\* C12: when resampling yields fewer than two grid points (none, or one),
\* the run treats the profile as an error: no chart is rendered or written
\* from such a profile.
C12_ShortProfile ==
    (parsed.status = "ok" /\ Len(parsed.out) < 2) =>
        chart = None /\ "chart" \notin files

\* the ids of the rows that hold elevation and temperature
ValidIds == Ids(SelectSeq(station_rows, LAMBDA r : r.elev_m # None /\ r.temp_c # None))

\* C14 as stated: one polyline for the observed curve, one for the
\* adiabatic curve, one station marker for each valid station (elevation
\* and temperature both present), every station not plotted named in the
\* caption and none both plotted and named.
C14_MarkerPerValid ==
    chart # None =>
        LET c == chart[1]
        IN  /\ Cardinality({i \in 1..Len(c.paths) : c.paths[i] = "rass"}) = 1
            /\ Cardinality({i \in 1..Len(c.paths) : c.paths[i] = "dalr"}) = 1
            /\ c.plotted = ValidIds
            /\ \A s \in StationIds : s \notin Range(c.plotted) => s \in Range(c.caption)
            /\ Range(c.plotted) \cap Range(c.caption) = {}

\* C14 (amended): one polyline for the observed curve, one for the
\* adiabatic curve, and one station marker for each plotted station, which
\* in variant latest are the stations whose row holds elevation and
\* temperature and in variant recent60 the stations whose row is flagged
\* recent; every configured station not plotted is named in the caption and
\* none is both plotted and named.
C14_MarkerPerPlotted ==
    chart # None =>
        LET c == chart[1]
        IN  /\ Cardinality({i \in 1..Len(c.paths) : c.paths[i] = "rass"}) = 1
            /\ Cardinality({i \in 1..Len(c.paths) : c.paths[i] = "dalr"}) = 1
            /\ Len(c.labels) = Len(c.plotted)
            /\ c.plotted = IF variant = "latest" THEN ValidIds
                           ELSE Ids(SelectSeq(station_rows, LAMBDA r : r.recent))
            /\ \A i, k \in 1..Len(c.plotted) : c.plotted[i] = c.plotted[k] => i = k
            /\ \A s \in StationIds : s \notin Range(c.plotted) => s \in Range(c.caption)
            /\ Range(c.plotted) \cap Range(c.caption) = {}

\* recent60: the first station's row holds elevation and temperature but
\* is older than 60 minutes: it is named in the caption, the second one is
\* plotted
C14_Witness ==
    /\ variant = "recent60" /\ chart # None
    /\ station_rows[1].elev_m # None /\ station_rows[1].temp_c # None
    /\ ~station_rows[1].recent
    /\ chart[1].plotted = <<STATIONS[2]>>
    /\ chart[1].caption = <<STATIONS[1]>>

\* C17: every row of the station-fetch step holds elevation, temperature
\* and observation time all three or none of them; in variant recent60
\* age_min is absent exactly for the rows without values and a row flagged
\* recent holds all three; so drawing and writing the CSV and summary never
\* format an absent value.
C17_RowsWhole ==
    /\ \A r \in HeldRows :
          /\ \/ r.elev_m # None /\ r.temp_c # None /\ r.ob_time # None
             \/ r.elev_m = None /\ r.temp_c = None /\ r.ob_time = None
          /\ variant = "recent60" =>
                /\ r.age_min = None <=> r.elev_m = None
                /\ r.recent => r.elev_m # None /\ r.temp_c # None /\ r.ob_time # None
    /\ err # "TypeError"

\* a finished run of recent60 whose first row is without values and whose
\* second row is recent: chart and CSV are written
C17_Witness ==
    /\ variant = "recent60" /\ pc = "done" /\ {"chart", "csv"} \subseteq files
    /\ station_rows[1].elev_m = None /\ station_rows[1].age_min = None
    /\ station_rows[2].recent /\ station_rows[2].age_min # None

\* a row is recent only with an observation of at most 60 minutes (120 half
\* minutes) before now
RecentOnly(r) ==
    r.recent =>
        /\ r.ob_time # None /\ TimeParses(r.ob_time[1])
        /\ now_utc - 2 * Minutes(r.ob_time[1]) <= 120

\* C8: in variant recent60 a row is flagged recent only if it has an
\* observation aged at most 60 minutes; a row without observation is never
\* recent; the chart plots only stations whose row is flagged recent.
C8_RecentOnly ==
    variant = "recent60" =>
        /\ \A s \in StationIds : fut[s].row # None => RecentOnly(fut[s].row[1])
        /\ \A i \in 1..Len(station_rows) : RecentOnly(station_rows[i])
        /\ chart # None =>
              \A k \in 1..Len(chart[1].plotted) :
                  \E i \in 1..Len(station_rows) :
                      /\ station_rows[i].id = chart[1].plotted[k]
                      /\ station_rows[i].recent

\* the first station's observation is exactly 60 minutes old and plotted,
\* the second one's is 61 minutes old and left out
C8_Witness ==
    /\ variant = "recent60" /\ chart # None
    /\ Len(station_rows) = Len(STATIONS)
    /\ station_rows[1].ob_time # None
    /\ now_utc - 2 * Minutes(station_rows[1].ob_time[1]) = 120
    /\ station_rows[2].ob_time # None
    /\ now_utc - 2 * Minutes(station_rows[2].ob_time[1]) = 122
    /\ chart[1].plotted = <<STATIONS[1]>>
    /\ chart[1].caption = <<STATIONS[2]>>

(***************************************************************************)
(* Claims about the renderer (SpecDraw).                                   *)
(***************************************************************************)
\* the rows of the plotted stations, and every altitude plotted
PlottedRows ==
    SelectSeq(station_rows, LAMBDA r : r.id \in Range(chart[1].plotted))

PlottedAlts ==
    {rass_points[i].alt : i \in 1..Len(rass_points)} \cup Elevs(PlottedRows)

\* C15: for every profile and every set of plotted stations, none
\* included, the lower bound of the vertical axis is the floor to a
\* multiple of 100 of min(lowest profile altitude, 0, smallest plotted
\* elevation), the upper bound the ceiling to a multiple of 100 of
\* max(highest profile altitude, largest plotted elevation), raised by 100
\* when the two would be equal; both are multiples of 100, the lower bound
\* is <= 0 and <= every plotted altitude, the upper bound >= every plotted
\* altitude, and upper > lower.
C15_AxisBounds ==
    pc = "returned" =>
        LET c  == chart[1]
            lo == FloorTo100(SetMin(PlottedAlts \cup {0}))
            hi == CeilTo100(SetMax(PlottedAlts))
        IN  /\ c.y_min = lo
            /\ c.y_max = IF hi = lo THEN hi + 100 ELSE hi
            /\ c.y_min % 100 = 0 /\ c.y_max % 100 = 0
            /\ c.y_min <= 0
            /\ \A a \in PlottedAlts : c.y_min <= a /\ a <= c.y_max
            /\ c.y_max > c.y_min

\* C16: the label of each plotted station, in order, starts at the pixel
\* row of its marker and moves down in steps of 12 until it is at least 12
\* away from the final position of every label placed before; with at most
\* 8 plotted stations such a position is found before the attempts (30 in
\* latest, 25 in recent60) run out; the position is then clamped into
\* [60, 476], and the clamped value is what later labels are compared with.
C16_LabelPlacement ==
    pc = "returned" =>
        LET c     == chart[1]
            d     == c.scale
            rows  == PlottedRows
            limit == IF variant = "latest" THEN 30 ELSE 25
            clear(y, k) == \A m \in 1..(k - 1) : Abs(y - c.labels[m].label_y) >= 12 * d
        IN  /\ d = c.y_max - c.y_min /\ d > 0
            /\ Len(c.labels) = Len(rows) /\ Len(rows) <= 8
            /\ \A k \in 1..Len(c.labels) :
                  LET l == c.labels[k]
                  IN  /\ l.id = rows[k].id
                      /\ l.y_px = 50 * d + (c.y_max - rows[k].elev_m[1]) * 430
                      /\ l.found /\ l.tries < limit
                      /\ l.y = l.y_px + 12 * d * l.tries
                      /\ clear(l.y, k)
                      /\ \A t \in 0..(l.tries - 1) : ~clear(l.y_px + 12 * d * t, k)
                      /\ l.label_y = IF l.y < 60 * d THEN 60 * d
                                     ELSE IF l.y > 476 * d THEN 476 * d ELSE l.y

\* eight plotted stations, the first seven at one elevation in mid-height
\* and the last at the bottom of the axis: the seventh label was moved six
\* steps down, the last one was clamped to 476
C16_Witness ==
    /\ pc = "returned" /\ Len(chart[1].labels) = 8
    /\ \A k \in 1..7 : station_rows[k].elev_m = Some(200)
    /\ chart[1].labels[7].tries = 6
    /\ chart[1].labels[8].y > 476 * chart[1].scale
    /\ chart[1].labels[8].label_y = 476 * chart[1].scale

(***************************************************************************)
(* Specifications of the two pure components.                              *)
(***************************************************************************)
\* the variables of main() while only a component is exercised
MainIdle ==
    /\ variant = "none" /\ err = "" /\ now_utc = 0
    /\ rass_points = <<>> /\ lag_h = 0 /\ pending = {} /\ results = <<>>
    /\ fut = <<>> /\ station_rows = <<>> /\ hist = <<>> /\ chart = <<>>
    /\ files = {}

mainVars == <<variant, err, now_utc, rass_points, lag_h, pending, results,
              fut, station_rows, hist, chart, files>>

InitLocate ==
    /\ MainIdle
    /\ pc = "call"
    /\ web \in Webs
    /\ located = NotCalled
    /\ text = <<>>
    /\ parsed = NotParsed

\* one call of latest_rass_file() against the archive
CallLatestRassFile ==
    /\ pc = "call"
    /\ located' = LatestRassFile(web)
    /\ pc' = "returned"
    /\ UNCHANGED <<web, text, parsed, mainVars>>

SpecLocate == InitLocate /\ [][CallLatestRassFile]_vars

InitParse ==
    /\ MainIdle
    /\ pc = "call"
    /\ web = <<>>
    /\ located = NotCalled
    /\ text \in Texts
    /\ parsed = NotParsed

\* one call of the parser on the text
CallParseRass ==
    /\ pc = "call"
    /\ parsed' = ParseRass(text)
    /\ pc' = "returned"
    /\ UNCHANGED <<web, located, text, mainVars>>

SpecParse == InitParse /\ [][CallParseRass]_vars

(***************************************************************************)
(* Claims about latest_rass_file (SpecLocate).                             *)
(***************************************************************************)
\* the listing a logged request was answered with
Answer(w, req) ==
    IF req[1] = "root" THEN w.root
    ELSE IF req[1] = "year" THEN w.year[req[2]]
    ELSE w.day[<<req[2], req[3]>>]

\* how many candidates a listing holds at the level of the request
Candidates(req, html) ==
    IF req[1] = "root" THEN FindYears(html)
    ELSE IF req[1] = "year" THEN FindDoys(html)
    ELSE FindFiles(html)

\* C9: latest_rass_file requests the root listing, then the listing of the
\* maximum year, then that of the maximum day of that year, each at most
\* once; it raises the not-found error at the first level whose listing
\* holds no candidate and requests nothing deeper; a transport failure of a
\* listing ends it with the transport error, not the not-found one; on
\* success it returns the greatest file name of the maximum day of the
\* maximum year.
C9_LocateLevels ==
    pc = "returned" =>
        LET reqs  == located.requests
            n     == Len(reqs)
            last  == Answer(web, reqs[n])
            maxY  == CHOOSE y \in FindYears(web.root) :
                         \A z \in FindYears(web.root) : z <= y
            maxD  == CHOOSE d \in FindDoys(web.year[maxY]) :
                         \A z \in FindDoys(web.year[maxY]) : z <= d
            dayFs == FindFiles(web.day[<<maxY, maxD>>])
        IN  /\ n \in 1..3
            /\ reqs[1] = <<"root", 0, 0>>
            /\ n >= 2 => reqs[2] = <<"year", maxY, 0>>
            /\ n >= 3 => reqs[3] = <<"day", maxY, maxD>>
            \* every listing but the last was delivered and held a candidate
            /\ \A i \in 1..(n - 1) :
                   /\ Answer(web, reqs[i]).ok
                   /\ Candidates(reqs[i], Answer(web, reqs[i])) # {}
            /\ located.status = "URLError" <=> ~last.ok
            /\ located.status = "RuntimeError" <=>
                   (last.ok /\ Candidates(reqs[n], last) = {})
            /\ located.status = "ok" <=>
                   (n = 3 /\ last.ok /\ Candidates(reqs[n], last) # {})
            /\ located.status = "ok" =>
                   /\ located.year = Some(maxY)
                   /\ located.doy = Some(maxD)
                   /\ located.file \in {Some(f) : f \in dayFs}
                   /\ \A f \in dayFs : f <= located.file[1]

\* not found at the year level of the newer of two years, while the older
\* year and the day listings hold candidates: nothing deeper was requested
C9_Witness ==
    /\ pc = "returned"
    /\ located.status = "RuntimeError"
    /\ located.requests = <<<<"root", 0, 0>>, <<"year", 2026, 0>>>>
    /\ FindYears(web.root) = {2025, 2026}
    /\ FindDoys(web.year[2025]) # {}
    /\ \A k \in YearNames \X DoyNames : FindFiles(web.day[k]) # {}

(***************************************************************************)
(* Claims about the parser (SpecParse).                                    *)
(***************************************************************************)
\* the altitudes of the valid points, in meters
ValidAlts == {parsed.points[i].alt : i \in 1..Len(parsed.points)}

\* C10: for every input with at least two valid points the altitudes of the
\* returned profile increase by exactly 100 between consecutive entries,
\* the first is the least multiple of 100 that is >= the smallest valid
\* altitude, the last the greatest multiple of 100 that is <= the largest,
\* and every grid altitude lies within [min, max]; the profile is empty
\* only when no multiple of 100 lies in [min, max].
C10_GridShape ==
    (pc = "returned" /\ parsed.status = "ok") =>
        LET out == parsed.out
            n   == Len(out)
            lo  == CHOOSE a \in ValidAlts : \A b \in ValidAlts : a <= b
            hi  == CHOOSE a \in ValidAlts : \A b \in ValidAlts : b <= a
        IN  /\ Cardinality(DOMAIN parsed.points) >= 2
            /\ \A i \in 1..(n - 1) : out[i + 1].alt = out[i].alt + 100
            /\ \A i \in 1..n : lo <= out[i].alt /\ out[i].alt <= hi
            /\ n > 0 =>
                   /\ out[1].alt % 100 = 0
                   /\ out[1].alt - 100 < lo
                   /\ out[n].alt % 100 = 0
                   /\ out[n].alt + 100 > hi
            /\ n = 0 => ~ \E a \in lo..hi : a % 100 = 0

\* the lines of the table: after the first line starting with HT, up to
\* the first blank line or line starting with $
TableLines ==
    LET heads == {i \in 1..Len(text) : Len(text[i]) > 0 /\ text[i][1].k = "HT"}
        first == CHOOSE i \in heads : \A k \in heads : i <= k
        ends  == {i \in (first + 1)..Len(text) :
                     Len(text[i]) = 0 \/ text[i][1].k = "$"}
        stop  == IF ends = {} THEN Len(text) + 1
                 ELSE CHOOSE i \in ends : \A k \in ends : i <= k
    IN  IF heads = {} THEN {} ELSE (first + 1)..(stop - 1)

\* the lines of the table that hold a point: two numeric fields at least,
\* the second one below 999999
ValidLines ==
    {i \in TableLines :
        /\ Len(text[i]) >= 2
        /\ text[i][1].k = "num" /\ text[i][2].k = "num"
        /\ text[i][2].v < 999999000}

C11_Interpolation ==
    (pc = "returned" /\ parsed.status = "ok") =>
        LET out == parsed.out
            pts == parsed.points
        IN  \A i \in 1..Len(out) :
                LET r  == out[i]
                    a  == r.alt
                    p0 == pts[r.j + 1]
                    p1 == pts[r.j + 2]
                IN  /\ 0 <= r.j /\ r.j + 1 <= Len(pts) - 1
                    /\ i > 1 => out[i - 1].j <= r.j
                    /\ p0.alt <= a /\ a <= p1.alt
                    /\ r.tden > 0
                    /\ p0.alt < p1.alt =>
                           r.tnum * (p1.alt - p0.alt) =
                               r.tden * (p0.temp * (p1.alt - p0.alt)
                                         + (p1.temp - p0.temp) * (a - p0.alt))
                    /\ p0.alt = p1.alt => r.tnum = p0.temp * r.tden
                    /\ (\E k \in 1..Len(pts) : pts[k].alt = a) =>
                           \E k \in 1..Len(pts) :
                               pts[k].alt = a /\ r.tnum = pts[k].temp * r.tden

\* points at -50, 110 and 300 m: the pointer stays at 0 for the grid
\* altitudes 0 and 100, moves to 1 for 200 and 300, and 300 m gets the
\* temperature of the point at 300 m
C11_Witness ==
    /\ pc = "returned" /\ parsed.status = "ok"
    /\ [i \in 1..Len(parsed.points) |-> parsed.points[i].alt] = <<-50, 110, 300>>
    /\ [i \in 1..Len(parsed.out) |-> parsed.out[i].j] = <<0, 0, 1, 1>>
    /\ parsed.out[4].alt = 300
    /\ parsed.out[4].tnum = parsed.points[3].temp * parsed.out[4].tden
    /\ parsed.out[3].tnum * 190 = parsed.out[3].tden * (15200 * 190 + (parsed.points[3].temp - 15200) * 90)

\* points at -50 m and 300 m (given out of order): the grid is 0,100,200,300
C10_Witness ==
    /\ pc = "returned"
    /\ parsed.status = "ok"
    /\ ValidAlts = {-50, 300}
    /\ text[2][1].v = 300
    /\ [i \in 1..Len(parsed.out) |-> parsed.out[i].alt] = <<0, 100, 200, 300>>

====
